---- MODULE Spec2Model ----
(***************************************************************************)
(* A model of the libretro frontend in retro/core.py (EmulatedSystem) and  *)
(* retro/_retro_wrapper.py (LowLevelWrapper): the process-wide library     *)
(* registry, the init/deinit lifecycle of a handle, the Loaded/Unloaded    *)
(* session state, the cheat mapping and the transfer of memory regions.    *)
(*                                                                         *)
(* The native core behind self._lib is the environment: what it answers    *)
(* (API version, need_fullpath, region sizes, results) is an input of the  *)
(* action that asks, and every entry point an operation invokes is         *)
(* recorded, in order, in last.calls.                                      *)
(***************************************************************************)
EXTENDS Integers, Sequences, FiniteSets, TLC

\* ---------------------------------------------------------------- bounds

\* Python objects (EmulatedSystem instances) the registry specification creates.
MaxHandles == 3
\* Python objects the session specification creates.
MaxSessions == 1
\* close() calls made on one object.
MaxCloses == 2
\* Largest cheat index used by the cheat operations.
MaxCheatIndex == 0
\* Largest size, in bytes, of a memory region of the core.
MaxMemSize == 1
\* Memory types of VALID_MEMORY_TYPES the memory specification covers.
NumMemTypes == 2

\* ------------------------------------------------------------- constants

\* retro.globals.RETRO_API_VERSION, compared at _retro_wrapper.py:19.
RETRO_API_VERSION == 1
\* retro.globals.MEMORY_SAVE_RAM and MEMORY_RTC, used at core.py:508 and 511.
MEMORY_SAVE_RAM == 0
MEMORY_RTC == 1

\* Library identifiers. The last one reports another API version; the
\* second one is a core that needs the full path of the game.
LibA == "libretro-a.so"
LibB == "libretro-b.so"
LibOld == "libretro-old.so"
Libs == {LibA, LibB, LibOld}
NoLib == "unset"

\* What retro_api_version() of each library answers.
api_version(l) == IF l = LibOld THEN 0 ELSE RETRO_API_VERSION
\* sysinfo.need_fullpath of each library.
need_fullpath(l) == l = LibB

\* The memory types, in the declared order of the enumeration.
VALID_MEMORY_TYPES == [i \in 1..NumMemTypes |-> i - 1]

\* The callback slots of a core.
Slots == {"video_refresh", "audio_sample", "audio_sample_batch",
          "input_poll", "input_state", "environment"}
\* The slots EmulatedSystem.__init__ gives a dummy callback.
DefaultSlots == {"video_refresh", "audio_sample", "input_poll", "input_state"}

Handles == 1..MaxHandles
Sessions == 1..MaxSessions
Bytes == {0, 1}
Codes == {"DD62-3B1F"}
CheatIndices == 0..MaxCheatIndex

\* The controller ports (port 2 of the console is index 1) and the
\* DEVICE_* constants set_controller_port_device documents.
Ports == {0, 1}
DEVICE_NONE == "DEVICE_NONE"
DEVICE_JOYPAD == "DEVICE_JOYPAD"
DEVICE_MOUSE == "DEVICE_MOUSE"
DEVICE_LIGHTGUN_SUPER_SCOPE == "DEVICE_LIGHTGUN_SUPER_SCOPE"
DEVICE_LIGHTGUN_JUSTIFIER == "DEVICE_LIGHTGUN_JUSTIFIER"
DEVICE_LIGHTGUN_JUSTIFIERS == "DEVICE_LIGHTGUN_JUSTIFIERS"
Devices == {DEVICE_NONE, DEVICE_JOYPAD, DEVICE_MOUSE,
            DEVICE_LIGHTGUN_SUPER_SCOPE, DEVICE_LIGHTGUN_JUSTIFIER,
            DEVICE_LIGHTGUN_JUSTIFIERS}

\* Byte strings of at most n bytes.
ByteStrings(n) == UNION {[1..k -> Bytes] : k \in 0..n}
\* n zero bytes: a fresh, blank region.
Blank(n) == [i \in 1..n |-> 0]
\* One region per memory type, each of at most MaxMemSize bytes.
Memories == [1..NumMemTypes -> ByteStrings(MaxMemSize)]
NoMemory == [i \in 1..NumMemTypes |-> <<>>]

\* ----------------------------------------------------------------- state

VARIABLES
    libretro_registry, \* core.py:44, the names of the libraries in use
    obj,               \* each Python object: "unborn", "live" (constructed and
                       \* referenced), "failed" (its __init__ raised), "dead"
    libname,           \* self._libname, NoLib until _retro_wrapper.py:16 sets it
    lib_active,        \* self._lib_active
    game_loaded,       \* self._game_loaded
    class_cheats,      \* the dict of the class attribute EmulatedSystem._loaded_cheats
    has_own_cheats,    \* whether the instance has its own _loaded_cheats (core.py:381)
    own_cheats,        \* the instance's own _loaded_cheats
    cb,                \* the slots for which a callback was handed to self._lib
    inits,             \* retro_init() calls made through the object
    deinits_close,     \* retro_deinit() calls made by explicit close()
    deinits_del,       \* retro_deinit() calls made by __del__
    core_mem,          \* each library's memory regions, by memory type
    port_device,       \* each library's controller ports: the device attached
    last               \* the last operation: its name, object, inputs, the
                       \* exception it raised, the entry points it invoked in
                       \* order, the <<index, code, enabled>> items it gave to
                       \* retro_cheat_set, and what it returned

pyvars == <<libretro_registry, obj, libname, lib_active, inits,
            deinits_close, deinits_del, cb>>
sessvars == <<game_loaded, class_cheats, has_own_cheats, own_cheats>>
corevars == <<core_mem, port_device>>
vars == <<pyvars, sessvars, corevars, last>>

Call(op, h, arg, raised, calls, ret) ==
    [op |-> op, h |-> h, arg |-> arg, raised |-> raised, calls |-> calls,
     cheat_set |-> {}, ret |-> ret]

Init ==
    /\ libretro_registry = {}
    /\ obj = [h \in Handles |-> "unborn"]
    /\ libname = [h \in Handles |-> NoLib]
    /\ lib_active = [h \in Handles |-> FALSE]
    /\ game_loaded = [h \in Handles |-> FALSE]
    /\ class_cheats = {}
    /\ has_own_cheats = [h \in Handles |-> FALSE]
    /\ own_cheats = [h \in Handles |-> {}]
    /\ cb = [h \in Handles |-> {}]
    /\ inits = [h \in Handles |-> 0]
    /\ deinits_close = [h \in Handles |-> 0]
    /\ deinits_del = [h \in Handles |-> 0]
    /\ core_mem = [l \in Libs |-> NoMemory]
    /\ port_device = [l \in Libs |-> [p \in Ports |-> DEVICE_JOYPAD]]
    /\ last = Call("import", 0, <<>>, "", <<>>, <<>>)

\* ------------------------------------------------------ handle lifecycle

\* An __init__ that enters the library in the registry before the wrapper
\* has checked its API version.
OpenRegistersFirst(h, l) ==
    /\ obj[h] = "unborn"
    /\ UNCHANGED <<sessvars, corevars, deinits_close, deinits_del>>
    /\ IF l \in libretro_registry
       THEN /\ obj' = [obj EXCEPT ![h] = "failed"]
            /\ last' = Call("open", h, <<l>>, "LibraryInUse", <<>>, <<>>)
            /\ UNCHANGED <<libretro_registry, libname, lib_active, inits, cb>>
       ELSE IF api_version(l) # RETRO_API_VERSION
       THEN /\ obj' = [obj EXCEPT ![h] = "failed"]
            /\ libname' = [libname EXCEPT ![h] = l]
            /\ libretro_registry' = libretro_registry \cup {l}
            /\ last' = Call("open", h, <<l>>, "LibraryVersionMismatch",
                            <<"retro_api_version">>, <<>>)
            /\ UNCHANGED <<lib_active, inits, cb>>
       ELSE /\ obj' = [obj EXCEPT ![h] = "live"]
            /\ libname' = [libname EXCEPT ![h] = l]
            /\ inits' = [inits EXCEPT ![h] = @ + 1]
            /\ lib_active' = [lib_active EXCEPT ![h] = TRUE]
            /\ libretro_registry' = libretro_registry \cup {l}
            /\ cb' = [cb EXCEPT ![h] = DefaultSlots]
            /\ last' = Call("open", h, <<l>>, "",
                            <<"retro_api_version", "retro_init",
                              "retro_set_video_refresh",
                              "retro_set_audio_sample",
                              "retro_set_input_poll",
                              "retro_set_input_state">>,
                            <<>>)

\* EmulatedSystem.__init__(libname), with LowLevelWrapper.__init__ and the
\* four set_*_cb calls it makes.
Open(h, l) ==
    /\ obj[h] = "unborn"
    /\ UNCHANGED <<sessvars, corevars, deinits_close, deinits_del>>
    /\ IF l \in libretro_registry
       THEN /\ obj' = [obj EXCEPT ![h] = "failed"]
            /\ last' = Call("open", h, <<l>>, "LibraryInUse", <<>>, <<>>)
            /\ UNCHANGED <<libretro_registry, libname, lib_active, inits, cb>>
       ELSE IF api_version(l) # RETRO_API_VERSION
       THEN /\ obj' = [obj EXCEPT ![h] = "failed"]
            /\ libname' = [libname EXCEPT ![h] = l]
            /\ last' = Call("open", h, <<l>>, "LibraryVersionMismatch",
                            <<"retro_api_version">>, <<>>)
            /\ UNCHANGED <<libretro_registry, lib_active, inits, cb>>
       ELSE /\ obj' = [obj EXCEPT ![h] = "live"]
            /\ libname' = [libname EXCEPT ![h] = l]
            /\ inits' = [inits EXCEPT ![h] = @ + 1]
            /\ lib_active' = [lib_active EXCEPT ![h] = TRUE]
            /\ libretro_registry' = libretro_registry \cup {l}
            /\ cb' = [cb EXCEPT ![h] = DefaultSlots]
            /\ last' = Call("open", h, <<l>>, "",
                            <<"retro_api_version", "retro_init",
                              "retro_set_video_refresh", "retro_set_audio_sample",
                              "retro_set_input_poll", "retro_set_input_state">>,
                            <<>>)

\* LowLevelWrapper.close(self): deinit, whatever _lib_active says.
WrapperClose(h, counter) ==
    /\ counter' = [counter EXCEPT ![h] = @ + 1]
    /\ lib_active' = [lib_active EXCEPT ![h] = FALSE]

\* The body of EmulatedSystem.close(self); counter is the count of deinit
\* calls the caller (close() or __del__) adds to. The module name W tested
\* at core.py:523 is bound for as long as the interpreter is not shutting
\* down, which is the life of the process modelled here.
CloseBody(h, counter) ==
    /\ WrapperClose(h, counter)
    /\ libretro_registry' = libretro_registry \ {libname[h]}

\* An explicit close() on an object the caller holds.
Close(h) ==
    /\ obj[h] = "live"
    /\ deinits_close[h] < MaxCloses
    /\ CloseBody(h, deinits_close)
    /\ last' = Call("close", h, <<>>, "", <<"retro_deinit">>, <<>>)
    /\ UNCHANGED <<obj, libname, inits, deinits_del, cb, sessvars, corevars>>

\* A __del__ that calls close() without reading _lib_active.
DestroyUnguarded(h) ==
    /\ obj[h] \in {"live", "failed"}
    /\ obj' = [obj EXCEPT ![h] = "dead"]
    /\ CloseBody(h, deinits_del)
    /\ last' = Call("del", h, <<>>, "", <<"retro_deinit">>, <<>>)
    /\ UNCHANGED <<libname, inits, deinits_close, cb, sessvars, corevars>>

\* The last reference to the object goes away and LowLevelWrapper.__del__
\* runs; self.close() there is EmulatedSystem.close.
Destroy(h) ==
    /\ obj[h] \in {"live", "failed"}
    /\ obj' = [obj EXCEPT ![h] = "dead"]
    /\ IF lib_active[h]
       THEN /\ CloseBody(h, deinits_del)
            /\ last' = Call("del", h, <<>>, "", <<"retro_deinit">>, <<>>)
       ELSE /\ last' = Call("del", h, <<>>, "", <<>>, <<>>)
            /\ UNCHANGED <<libretro_registry, lib_active, deinits_del>>
    /\ UNCHANGED <<libname, inits, deinits_close, cb, sessvars, corevars>>

\* ------------------------------------------------------------- callbacks

\* The entry point each set_*_cb method hands its callback to.
SetterOf == [video_refresh |-> "retro_set_video_refresh",
             audio_sample |-> "retro_set_audio_sample",
             audio_sample_batch |-> "retro_set_audio_sample_batch",
             input_poll |-> "retro_set_input_poll",
             input_state |-> "retro_set_input_state",
             environment |-> "retro_set_environment"]

\* set_environment_cb, set_video_refresh_cb, set_audio_sample_cb,
\* set_audio_sample_batch_cb, set_input_poll_cb, set_input_state_cb: each
\* forwards the callback to the core, with no check of any state.
set_cb(h, slot) ==
    /\ obj[h] = "live"
    /\ cb' = [cb EXCEPT ![h] = @ \cup {slot}]
    /\ last' = Call("set_cb", h, <<slot>>, "", <<SetterOf[slot]>>, <<>>)
    /\ UNCHANGED <<libretro_registry, obj, libname, lib_active, inits,
                   deinits_close, deinits_del, sessvars, corevars>>

\* ------------------------------------------------------- memory transfer

\* The payload of an optional argument (sram, rtc) or an entry of the list
\* unload() returns: None, or a byte string.
None == [used |-> FALSE, bytes |-> <<>>]
Some(b) == [used |-> TRUE, bytes |-> b]
Payloads(n) == {None} \cup {Some(b) : b \in ByteStrings(n)}

\* The region of memory type t (0-based) in memory m.
Region(m, t) == m[t + 1]

\* A _memory_to_string that returns zero bytes of the region's size.
memory_to_string_zeroes(m, t) ==
    IF Len(Region(m, t)) = 0 THEN None ELSE Some(Blank(Len(Region(m, t))))

\* _memory_to_string(mem_type): None for a region of size 0, else its bytes.
memory_to_string(m, t) ==
    IF Len(Region(m, t)) = 0 THEN None ELSE Some(Region(m, t))

\* Whether _string_to_memory(data, mem_type) raises: the lengths differ.
string_to_memory_raises(m, data, t) == Len(data) # Len(Region(m, t))

\* A _string_to_memory that copies nothing.
string_to_memory_copies_nothing(m, data, t) == m

\* _string_to_memory(data, mem_type) when it does not raise: the region
\* holds the bytes of data.
string_to_memory(m, data, t) ==
    [m EXCEPT ![t + 1] = [i \in 1..Len(Region(m, t)) |-> data[i]]]

\* The entry points one _memory_to_string or _string_to_memory call invokes.
MemQuery == <<"retro_get_memory_size", "retro_get_memory_data">>

RECURSIVE Repeat(_, _)
Repeat(s, n) == IF n = 0 THEN <<>> ELSE s \o Repeat(s, n - 1)

\* Memories with the region sizes of m: what a core may leave after a frame.
SameSizes(m) ==
    {x \in Memories : \A i \in 1..NumMemTypes : Len(x[i]) = Len(m[i])}

\* ---------------------------------------------------------------- cheats

\* self._loaded_cheats: the instance's own dict once unload() has assigned
\* one, the dict of the class attribute until then. A dict is modelled as
\* the set of its items <<index, code, enabled>>.
loaded_cheats(h) == IF has_own_cheats[h] THEN own_cheats[h] ELSE class_cheats

HasCheat(d, i) == \E c \in d : c[1] = i
CheatAt(d, i) == CHOOSE c \in d : c[1] = i
CheatPut(d, i, code, enabled) ==
    {c \in d : c[1] # i} \cup {<<i, code, enabled>>}
CheatDel(d, i) == {c \in d : c[1] # i}

\* The dict self._loaded_cheats names is changed in place.
StoreCheats(h, d) ==
    IF has_own_cheats[h]
    THEN /\ own_cheats' = [own_cheats EXCEPT ![h] = d]
         /\ UNCHANGED class_cheats
    ELSE /\ class_cheats' = d
         /\ UNCHANGED own_cheats

\* A _reload_cheats() that does not reset the core's table first.
reload_cheats_calls_no_reset(d) ==
    Repeat(<<"retro_cheat_set">>, Cardinality(d))

\* _reload_cheats(): retro_cheat_reset, then retro_cheat_set for every item.
reload_cheats_calls(d) ==
    <<"retro_cheat_reset">> \o Repeat(<<"retro_cheat_set">>, Cardinality(d))
\* The record of a cheat operation that called _reload_cheats() on dict d.
reload_cheats(op, h, arg, d) ==
    [Call(op, h, arg, "", reload_cheats_calls(d), <<>>)
        EXCEPT !.cheat_set = d]

\* cheat_add(index, code, enabled)
cheat_add(h, i, code, enabled) ==
    /\ obj[h] = "live"
    /\ LET d == CheatPut(loaded_cheats(h), i, code, enabled) IN
       /\ StoreCheats(h, d)
       /\ last' = reload_cheats("cheat_add", h, <<i, code, enabled>>, d)
    /\ UNCHANGED <<pyvars, game_loaded, has_own_cheats, corevars>>

\* A cheat_remove that ignores an index the mapping does not have.
cheat_remove_ignores_absent(h, i) ==
    /\ obj[h] = "live"
    /\ LET d == CheatDel(loaded_cheats(h), i) IN
       /\ StoreCheats(h, d)
       /\ last' = reload_cheats("cheat_remove", h, <<i>>, d)
    /\ UNCHANGED <<pyvars, game_loaded, has_own_cheats, corevars>>

\* cheat_remove(index)
cheat_remove(h, i) ==
    /\ obj[h] = "live"
    /\ IF ~HasCheat(loaded_cheats(h), i)
       THEN /\ last' = Call("cheat_remove", h, <<i>>, "KeyError", <<>>, <<>>)
            /\ UNCHANGED <<class_cheats, own_cheats>>
       ELSE LET d == CheatDel(loaded_cheats(h), i) IN
            /\ StoreCheats(h, d)
            /\ last' = reload_cheats("cheat_remove", h, <<i>>, d)
    /\ UNCHANGED <<pyvars, game_loaded, has_own_cheats, corevars>>

\* cheat_set_enabled(index, enabled)
cheat_set_enabled(h, i, enabled) ==
    /\ obj[h] = "live"
    /\ IF ~HasCheat(loaded_cheats(h), i)
       THEN /\ last' = Call("cheat_set_enabled", h, <<i, enabled>>,
                            "KeyError", <<>>, <<>>)
            /\ UNCHANGED <<class_cheats, own_cheats>>
       ELSE LET d == CheatPut(loaded_cheats(h), i,
                              CheatAt(loaded_cheats(h), i)[2], enabled) IN
            /\ StoreCheats(h, d)
            /\ last' = reload_cheats("cheat_set_enabled", h,
                                     <<i, enabled>>, d)
    /\ UNCHANGED <<pyvars, game_loaded, has_own_cheats, corevars>>

\* cheat_is_enabled(index)
cheat_is_enabled(h, i) ==
    /\ obj[h] = "live"
    /\ IF ~HasCheat(loaded_cheats(h), i)
       THEN last' = Call("cheat_is_enabled", h, <<i>>, "KeyError", <<>>, <<>>)
       ELSE last' = Call("cheat_is_enabled", h, <<i>>, "", <<>>,
                         <<CheatAt(loaded_cheats(h), i)[3]>>)
    /\ UNCHANGED <<pyvars, sessvars, corevars>>

\* ------------------------------------------------------ controller ports

\* set_controller_port_device(port, device): handed to the core as given.
set_controller_port_device(h, port, device) ==
    /\ obj[h] = "live"
    /\ port_device' = [port_device EXCEPT ![libname[h]][port] = device]
    /\ last' = Call("set_controller_port_device", h, <<port, device>>, "",
                    <<"retro_set_controller_port_device">>, <<>>)
    /\ UNCHANGED <<pyvars, sessvars, core_mem>>

\* --------------------------------------------------------------- session

\* A _require_game_loaded() that never raises.
require_game_loaded_never(h) == ""

\* The exception _require_game_loaded() raises, "" when it raises none.
require_game_loaded(h) == IF ~game_loaded[h] THEN "NoGameLoaded" ELSE ""

\* The exception _require_game_not_loaded() raises, "" when it raises none.
require_game_not_loaded(h) == IF game_loaded[h] THEN "GameAlreadyLoaded" ELSE ""

\* reset()
reset(h) ==
    /\ obj[h] = "live"
    /\ IF require_game_loaded(h) # ""
       THEN last' = Call("reset", h, <<>>, require_game_loaded(h), <<>>, <<>>)
       ELSE last' = Call("reset", h, <<>>, "", <<"retro_reset">>, <<>>)
    /\ UNCHANGED <<pyvars, sessvars, corevars>>

\* run(); m is the memory the core leaves after the frame.
run(h, m) ==
    /\ obj[h] = "live"
    /\ IF require_game_loaded(h) # ""
       THEN /\ last' = Call("run", h, <<>>, require_game_loaded(h), <<>>, <<>>)
            /\ UNCHANGED core_mem
       ELSE /\ m \in SameSizes(core_mem[libname[h]])
            /\ core_mem' = [core_mem EXCEPT ![libname[h]] = m]
            /\ last' = Call("run", h, <<>>, "", <<"retro_run">>, <<>>)
    /\ UNCHANGED <<pyvars, sessvars, port_device>>

\* An unload() list built from the last memory type to the first.
unload_result_reversed(m) ==
    [i \in 1..Len(VALID_MEMORY_TYPES) |->
        memory_to_string(m,
            VALID_MEMORY_TYPES[Len(VALID_MEMORY_TYPES) + 1 - i])]

\* The list unload() builds from memory m: one entry per memory type, in
\* the order of VALID_MEMORY_TYPES.
unload_result(m) ==
    [i \in 1..Len(VALID_MEMORY_TYPES) |->
        memory_to_string(m, VALID_MEMORY_TYPES[i])]

\* The entry points unload() invokes, in order.
unload_calls ==
    Repeat(MemQuery, Len(VALID_MEMORY_TYPES)) \o <<"retro_unload_game">>

\* An unload() that leaves the cheats in place.
unload_keeps_cheats(h) ==
    /\ obj[h] = "live"
    /\ IF require_game_loaded(h) # ""
       THEN /\ last' = Call("unload", h, <<>>, require_game_loaded(h),
                            <<>>, <<>>)
            /\ UNCHANGED <<sessvars, core_mem>>
       ELSE /\ last' = Call("unload", h, <<>>, "", unload_calls,
                            unload_result(core_mem[libname[h]]))
            /\ core_mem' = [core_mem EXCEPT ![libname[h]] = NoMemory]
            /\ game_loaded' = [game_loaded EXCEPT ![h] = FALSE]
            /\ UNCHANGED <<class_cheats, has_own_cheats, own_cheats>>
    /\ UNCHANGED <<pyvars, port_device>>

\* unload(); the core's regions are gone once retro_unload_game returns.
unload(h) ==
    /\ obj[h] = "live"
    /\ IF require_game_loaded(h) # ""
       THEN /\ last' = Call("unload", h, <<>>, require_game_loaded(h),
                            <<>>, <<>>)
            /\ UNCHANGED <<sessvars, core_mem>>
       ELSE /\ last' = Call("unload", h, <<>>, "", unload_calls,
                            unload_result(core_mem[libname[h]]))
            /\ core_mem' = [core_mem EXCEPT ![libname[h]] = NoMemory]
            /\ has_own_cheats' = [has_own_cheats EXCEPT ![h] = TRUE]
            /\ own_cheats' = [own_cheats EXCEPT ![h] = {}]
            /\ game_loaded' = [game_loaded EXCEPT ![h] = FALSE]
            /\ UNCHANGED class_cheats
    /\ UNCHANGED <<pyvars, port_device>>

\* get_refresh_rate(): no check of any state.
get_refresh_rate(h) ==
    /\ obj[h] = "live"
    /\ last' = Call("get_refresh_rate", h, <<>>, "",
                    <<"retro_get_system_av_info">>, <<>>)
    /\ UNCHANGED <<pyvars, sessvars, corevars>>

\* serialize(); ok is what retro_serialize answers. The name ctypes of
\* core.py:403 is taken to come with "from retro.globals import *".
serialize(h, ok) ==
    /\ obj[h] = "live"
    /\ IF require_game_loaded(h) # ""
       THEN last' = Call("serialize", h, <<>>, require_game_loaded(h),
                         <<>>, <<>>)
       ELSE last' = Call("serialize", h, <<ok>>,
                         IF ~ok THEN "RetroException" ELSE "",
                         <<"retro_serialize_size", "retro_serialize">>, <<>>)
    /\ UNCHANGED <<pyvars, sessvars, corevars>>

\* An unserialize that does not read what retro_unserialize answers.
unserialize_ignores_result(h, ok) ==
    /\ obj[h] = "live"
    /\ last' = Call("unserialize", h, <<ok>>, "", <<"retro_unserialize">>,
                    <<>>)
    /\ UNCHANGED <<pyvars, sessvars, corevars>>

\* unserialize(state); ok is what retro_unserialize answers.
unserialize(h, ok) ==
    /\ obj[h] = "live"
    /\ last' = Call("unserialize", h, <<ok>>,
                    IF ~ok THEN "RetroException" ELSE "",
                    <<"retro_unserialize">>, <<>>)
    /\ UNCHANGED <<pyvars, sessvars, corevars>>

\* get_save_data()
get_save_data(h) ==
    /\ obj[h] = "live"
    /\ last' = Call("get_save_data", h, <<>>, "", MemQuery,
                    <<memory_to_string(core_mem[libname[h]], MEMORY_SAVE_RAM)>>)
    /\ UNCHANGED <<pyvars, sessvars, corevars>>

\* The two checks of load_game_normal made in the other order.
load_game_check_swapped(l, data, path) ==
    IF ~(path # "" \/ data # "") THEN "DataAndPathNotProvided"
    ELSE IF need_fullpath(l) /\ path = "" THEN "FullPathRequired"
    ELSE ""

\* The checks load_game_normal makes on its arguments (core.py:494-497):
\* the exception raised, "" when none is.
load_game_check(l, data, path) ==
    IF need_fullpath(l) /\ path = "" THEN "FullPathRequired"
    ELSE IF ~(path # "" \/ data # "") THEN "DataAndPathNotProvided"
    ELSE ""

\* The rest of load_game_normal once retro_load_game has returned
\* (core.py:505-511), on the memory fresh the core then exposes: the
\* exception raised, the entry points invoked and the memory left.
load_game_seed(fresh, sram, rtc) ==
    IF sram.used /\ string_to_memory_raises(fresh, sram.bytes, MEMORY_SAVE_RAM)
    THEN [raised |-> "RetroException", calls |-> MemQuery, mem |-> fresh]
    ELSE LET m1 == IF sram.used
                   THEN string_to_memory(fresh, sram.bytes, MEMORY_SAVE_RAM)
                   ELSE fresh
             c1 == IF sram.used THEN MemQuery ELSE <<>>
         IN IF rtc.used /\ string_to_memory_raises(m1, rtc.bytes, MEMORY_RTC)
            THEN [raised |-> "RetroException", calls |-> c1 \o MemQuery,
                  mem |-> m1]
            ELSE [raised |-> "",
                  calls |-> c1 \o (IF rtc.used THEN MemQuery ELSE <<>>),
                  mem |-> IF rtc.used
                          THEN string_to_memory(m1, rtc.bytes, MEMORY_RTC)
                          ELSE m1]

\* What a load_game_normal step records of its inputs: whether data and
\* path were given and, once the load has reached retro_load_game, the two
\* payloads, the memory the core exposed and what retro_load_game answered.
LoadArg(data, path, sram, rtc, fresh, ok) ==
    <<data # "", path # "", sram, rtc, fresh, ok>>
LoadArgRejected(data, path) ==
    LoadArg(data, path, None, None, NoMemory, TRUE)

\* load_game_normal(data, sram, rtc, path); ok is what retro_load_game
\* answers (the code does not read it) and fresh the memory regions the
\* core exposes for the game once it is loaded.
load_game_normal(h, data, path, sram, rtc, ok, fresh) ==
    /\ obj[h] = "live"
    /\ IF require_game_not_loaded(h) # ""
       THEN /\ last' = Call("load_game", h, LoadArgRejected(data, path),
                            require_game_not_loaded(h), <<>>, <<>>)
            /\ UNCHANGED <<game_loaded, core_mem>>
       ELSE IF load_game_check(libname[h], data, path) # ""
       THEN /\ last' = Call("load_game", h, LoadArgRejected(data, path),
                            load_game_check(libname[h], data, path),
                            <<"retro_get_system_info">>, <<>>)
            /\ UNCHANGED <<game_loaded, core_mem>>
       ELSE LET r == load_game_seed(fresh, sram, rtc)
            IN /\ game_loaded' = [game_loaded EXCEPT ![h] = TRUE]
               /\ core_mem' = [core_mem EXCEPT ![libname[h]] = r.mem]
               /\ last' = Call("load_game", h,
                               LoadArg(data, path, sram, rtc, fresh, ok),
                               r.raised,
                               <<"retro_get_system_info", "retro_load_game">>
                                   \o r.calls,
                               <<>>)
    /\ UNCHANGED <<pyvars, class_cheats, has_own_cheats, own_cheats,
                   port_device>>

\* ------------------------------------------------------- specifications

GameData == {"", "ROM"}
GamePaths == {"", "/roms/game.nes"}

\* The session specification loads games without persistent memory; the
\* save-RAM payload it hands to load_game_normal is absent, or MaxMemSize
\* bytes that fit no region of such a game.
SessionSram == {None, Some(Blank(MaxMemSize))}

\* Any interleaving of open, close and destruction over MaxHandles objects.
NextRegistry ==
    \E h \in Handles :
        \/ \E l \in Libs : Open(h, l)
        \/ Close(h)
        \/ Destroy(h)

SpecRegistry == Init /\ [][NextRegistry]_vars

\* One object through its whole life: every operation that reaches the
\* core, before and after close().
NextHandle ==
    \/ \E l \in Libs : Open(1, l)
    \/ Close(1)
    \/ Destroy(1)
    \/ \E slot \in Slots : set_cb(1, slot)
    \/ reset(1)
    \/ run(1, NoMemory)
    \/ unload(1)
    \/ get_refresh_rate(1)
    \/ \E ok \in BOOLEAN : serialize(1, ok)
    \/ \E ok \in BOOLEAN : unserialize(1, ok)
    \/ get_save_data(1)
    \/ \E i \in CheatIndices, code \in Codes, enabled \in BOOLEAN :
           cheat_add(1, i, code, enabled)
    \/ \E data \in GameData, path \in GamePaths, ok \in BOOLEAN :
           load_game_normal(1, data, path, None, None, ok, NoMemory)

SpecHandle == Init /\ [][NextHandle]_vars

\* The session operations of MaxSessions objects, each on a library of its
\* own.
Next ==
    \E h \in Sessions :
        \/ \E l \in Libs : Open(h, l)
        \/ reset(h)
        \/ run(h, NoMemory)
        \/ unload(h)
        \/ get_refresh_rate(h)
        \/ \E ok \in BOOLEAN : serialize(h, ok)
        \/ \E ok \in BOOLEAN : unserialize(h, ok)
        \/ \E i \in CheatIndices, code \in Codes, enabled \in BOOLEAN :
               cheat_add(h, i, code, enabled)
        \/ \E i \in CheatIndices : cheat_remove(h, i)
        \/ \E i \in CheatIndices, enabled \in BOOLEAN :
               cheat_set_enabled(h, i, enabled)
        \/ \E i \in CheatIndices : cheat_is_enabled(h, i)
        \/ \E data \in GameData, path \in GamePaths, sram \in SessionSram,
              ok \in BOOLEAN :
               load_game_normal(h, data, path, sram, None, ok, NoMemory)

Spec == Init /\ [][Next]_vars

\* One object loading, running and unloading games of every region size
\* and content, with every save-RAM and RTC payload. A load on a loaded
\* game is rejected before it reads a payload or asks the core, so one
\* choice of inputs stands for all of them there.
NextMemory ==
    \/ Open(1, LibA)
    \/ \E m \in Memories : run(1, m)
    \/ unload(1)
    \/ get_save_data(1)
    \/ /\ ~game_loaded[1]
       /\ \E sram \in Payloads(MaxMemSize), rtc \in Payloads(MaxMemSize),
             fresh \in Memories :
              load_game_normal(1, "ROM", "", sram, rtc, TRUE, fresh)
    \/ /\ game_loaded[1]
       /\ load_game_normal(1, "ROM", "", None, None, TRUE, NoMemory)

SpecMemory == Init /\ [][NextMemory]_vars

\* Two objects alive in one process, each on a library of its own, with
\* their cheat operations, loads and unloads.
Pair == {1, 2}
LibOf(h) == IF h = 1 THEN LibA ELSE LibB
NextPair ==
    \E h \in Pair :
        \/ Open(h, LibOf(h))
        \/ \E i \in CheatIndices, code \in Codes, enabled \in BOOLEAN :
               cheat_add(h, i, code, enabled)
        \/ \E i \in CheatIndices : cheat_remove(h, i)
        \/ \E i \in CheatIndices, enabled \in BOOLEAN :
               cheat_set_enabled(h, i, enabled)
        \/ \E i \in CheatIndices : cheat_is_enabled(h, i)
        \/ load_game_normal(h, "ROM", "/roms/game.nes", None, None, TRUE,
                            NoMemory)
        \/ unload(h)

SpecPair == Init /\ [][NextPair]_vars

\* One object attaching devices to its controller ports around loads and
\* unloads.
NextPorts ==
    \/ Open(1, LibA)
    \/ \E port \in Ports, device \in Devices :
           set_controller_port_device(1, port, device)
    \/ \E ok \in BOOLEAN :
           load_game_normal(1, "ROM", "", None, None, ok, NoMemory)
    \/ unload(1)

SpecPorts == Init /\ [][NextPorts]_vars

\* ----------------------------------------------------------------- claims

\* A handle is open: constructed, referenced and not closed.
IsOpen(h) == obj[h] = "live" /\ lib_active[h]

\* C1: an open on the identifier of a library that has the right API version
\* fails with LibraryInUse when a handle opened earlier on that identifier
\* is still open, and succeeds when none is.
C1_OpenExclusive ==
    [][\A h \in Handles, l \in Libs :
        (api_version(l) = RETRO_API_VERSION /\ Open(h, l)) =>
            last'.raised =
                IF \E g \in Handles : IsOpen(g) /\ libname[g] = l
                THEN "LibraryInUse" ELSE ""]_vars

\* C3: close() on a handle that is already closed is a no-op: it invokes no
\* entry point and changes neither the registry nor the handle; so init and
\* deinit are each invoked once per closed handle.
C3_CloseIdempotent ==
    [][\A h \in Handles :
        (last'.op = "close" /\ last'.h = h) =>
            /\ inits'[h] = 1
            /\ deinits_close'[h] + deinits_del'[h] = 1
            /\ ~lib_active[h] =>
                  /\ last'.calls = <<>>
                  /\ UNCHANGED <<libretro_registry, lib_active, deinits_close>>
      ]_vars

C5_OnlyWhileActive ==
    [][\A h \in Handles :
        (last'.h = h /\ last'.op \notin {"open", "close", "del"}
                     /\ last'.calls # <<>>) => lib_active[h]]_vars

\* C6: every callback slot of a constructed object holds a callback.
C6_AllSlotsSet == \A h \in Handles : obj[h] = "live" => cb[h] = Slots

\* C2: run, reset, unload and serialize without a game raise NoGameLoaded,
\* load_game_normal with a game raises GameAlreadyLoaded; the failed call
\* invokes no entry point and leaves game_loaded and the cheats alone.
C2_StateGuards ==
    [][\A h \in Handles :
        /\ (last'.h = h /\ last'.op \in {"run", "reset", "unload", "serialize"}
                        /\ ~game_loaded[h]) =>
              /\ last'.raised = "NoGameLoaded"
              /\ last'.calls = <<>>
              /\ UNCHANGED sessvars
        /\ (last'.h = h /\ last'.op = "load_game" /\ game_loaded[h]) =>
              /\ last'.raised = "GameAlreadyLoaded"
              /\ last'.calls = <<>>
              /\ UNCHANGED sessvars
      ]_vars

\* C2 witness: run() was refused on a session that was loaded and unloaded
\* before and has a cheat.
C2_Witness ==
    /\ last.op = "run" /\ last.raised = "NoGameLoaded"
    /\ has_own_cheats[last.h] /\ loaded_cheats(last.h) # {}

\* C7: after a load_game_normal that raised nothing the session is loaded
\* and its cheat mapping is empty.
C7_LoadClearsCheats ==
    [][\A h \in Handles :
        (last'.op = "load_game" /\ last'.h = h /\ last'.raised = "") =>
            /\ game_loaded'[h]
            /\ loaded_cheats(h)' = {}]_vars

\* Whether entry point c is among the calls cs.
Invoked(c, cs) == \E k \in 1..Len(cs) : cs[k] = c

\* C8: on an unloaded session, load_game_normal without a path on a core
\* that needs the full path raises FullPathRequired, with or without data;
\* without data and path on a core that does not, DataAndPathNotProvided;
\* neither call invokes retro_load_game and the session stays unloaded.
C8_LoadValidation ==
    [][\A h \in Handles :
        (last'.op = "load_game" /\ last'.h = h /\ ~game_loaded[h]) =>
            LET hasData == last'.arg[1]
                hasPath == last'.arg[2]
            IN /\ (need_fullpath(libname[h]) /\ ~hasPath) =>
                     /\ last'.raised = "FullPathRequired"
                     /\ ~Invoked("retro_load_game", last'.calls)
                     /\ ~game_loaded'[h]
               /\ (~need_fullpath(libname[h]) /\ ~hasPath /\ ~hasData) =>
                     /\ last'.raised = "DataAndPathNotProvided"
                     /\ ~Invoked("retro_load_game", last'.calls)
                     /\ ~game_loaded'[h]
      ]_vars

\* C8 witness: a load with data and no path was refused by a core that
\* needs the full path.
C8_Witness ==
    /\ last.op = "load_game" /\ last.raised = "FullPathRequired"
    /\ last.arg[1] /\ ~last.arg[2]

\* C9: an unload() that raised nothing leaves the session unloaded with an
\* empty cheat mapping; a load on an unloaded session is not refused as
\* GameAlreadyLoaded; game_loaded changes only in a load or an unload of
\* that session.
C9_UnloadReusable ==
    [][\A h \in Handles :
        /\ (last'.op = "unload" /\ last'.h = h /\ last'.raised = "") =>
              /\ ~game_loaded'[h]
              /\ loaded_cheats(h)' = {}
        /\ (last'.op = "load_game" /\ last'.h = h /\ ~game_loaded[h]) =>
              last'.raised # "GameAlreadyLoaded"
        /\ game_loaded'[h] # game_loaded[h] =>
              /\ last'.h = h
              /\ last'.op \in {"load_game", "unload"}
      ]_vars

\* C9 witness: a session that was unloaded has a game loaded again.
C9_Witness ==
    /\ last.op = "load_game" /\ last.raised = ""
    /\ has_own_cheats[last.h] /\ game_loaded[last.h]

\* C10: the list unload() returns has one entry per memory type; entry i is
\* for the i-th type of the enumeration, read from the regions as they were
\* before retro_unload_game, which is the last entry point invoked; it is
\* None exactly when the region has size 0, and the region's bytes otherwise.
C10_UnloadSnapshot ==
    [][(last'.op = "unload" /\ last'.raised = "") =>
        LET m == core_mem[libname[last'.h]]
            r == last'.ret
            cs == last'.calls
        IN /\ Len(r) = NumMemTypes
           /\ \A i \in 1..NumMemTypes :
                 /\ r[i].used = (Len(m[i]) # 0)
                 /\ r[i].used => r[i].bytes = m[i]
           /\ Len(cs) = 2 * NumMemTypes + 1
           /\ \A k \in 1..Len(cs) :
                 (cs[k] = "retro_unload_game") = (k = Len(cs))
      ]_vars

\* C10 witness: an unload returned None for one type and, for another,
\* bytes that the game had changed.
C10_Witness ==
    /\ last.op = "unload" /\ last.raised = ""
    /\ \E i, j \in 1..NumMemTypes :
          /\ ~last.ret[i].used
          /\ last.ret[j].used /\ last.ret[j].bytes # Blank(Len(last.ret[j].bytes))

\* The state of one region after load_game_normal handed payload p to
\* _string_to_memory for type t, the region being before at that point:
\* on a length mismatch the size error was raised and no byte changed,
\* on equal lengths the region equals the payload byte for byte.
Written(p, t, before, after, raised) ==
    IF Len(p.bytes) # Len(before[t + 1])
    THEN raised = "RetroException" /\ after = before
    ELSE after[t + 1] = p.bytes

\* C11: writing a buffer into a memory region raises the size-mismatch
\* error whenever the buffer's length differs from the size the core
\* reports for the region, and then no byte of the region has changed; when
\* the lengths are equal the region afterwards equals the buffer byte for
\* byte. Checked on every write load_game_normal makes: the save-RAM
\* payload first, the RTC payload after it when the first write passed.
C11_StringToMemory ==
    [][(last'.op = "load_game" /\ Invoked("retro_load_game", last'.calls)) =>
        LET sram == last'.arg[3]
            rtc == last'.arg[4]
            fresh == last'.arg[5]
            after == core_mem'[libname[last'.h]]
            sramFits == Len(sram.bytes) = Len(fresh[MEMORY_SAVE_RAM + 1])
        IN /\ sram.used => Written(sram, MEMORY_SAVE_RAM, fresh, after,
                                   last'.raised)
           /\ (rtc.used /\ (sram.used => sramFits)) =>
                  Written(rtc, MEMORY_RTC,
                          IF sram.used
                          THEN [fresh EXCEPT ![MEMORY_SAVE_RAM + 1] = sram.bytes]
                          ELSE fresh,
                          after, last'.raised)
           /\ last'.raised = "RetroException" =>
                  \/ sram.used /\ ~sramFits
                  \/ rtc.used /\ Len(rtc.bytes) # Len(fresh[MEMORY_RTC + 1])
      ]_vars

\* C11 witness: a load wrote a save-RAM payload of the region's size over
\* different bytes, and then refused an RTC payload of the wrong length,
\* leaving the non-blank RTC region as it was.
C11_Witness ==
    /\ last.op = "load_game" /\ last.raised = "RetroException"
    /\ last.arg[3].used /\ last.arg[4].used
    /\ LET fresh == last.arg[5]
           after == core_mem[libname[last.h]]
       IN /\ Len(fresh[MEMORY_SAVE_RAM + 1]) > 0
          /\ after[MEMORY_SAVE_RAM + 1] = last.arg[3].bytes
          /\ after[MEMORY_SAVE_RAM + 1] # fresh[MEMORY_SAVE_RAM + 1]
          /\ Len(last.arg[4].bytes) # Len(fresh[MEMORY_RTC + 1])
          /\ fresh[MEMORY_RTC + 1] # Blank(Len(fresh[MEMORY_RTC + 1]))
          /\ after[MEMORY_RTC + 1] = fresh[MEMORY_RTC + 1]

\* A load_game_normal step that reached retro_load_game.
LoadReached(l) == l.op = "load_game" /\ Invoked("retro_load_game", l.calls)

\* The second half of the save-RAM round trip: a load that follows an
\* unload, is given the save-RAM entry that unload returned, and is of a
\* game whose save-RAM region has the size of the game unloaded, leaves the
\* region equal to that entry (empty when the entry is None), whatever the
\* core had in it.
ReloadRestores ==
    (/\ last.op = "unload" /\ last.raised = ""
     /\ LoadReached(last') /\ last'.h = last.h
     /\ last'.arg[3] = last.ret[MEMORY_SAVE_RAM + 1]
     /\ Len(last'.arg[5][MEMORY_SAVE_RAM + 1])
            = Len(last.ret[MEMORY_SAVE_RAM + 1].bytes)) =>
        core_mem'[libname[last'.h]][MEMORY_SAVE_RAM + 1]
            = last.ret[MEMORY_SAVE_RAM + 1].bytes

\* A load that took a save-RAM payload of the region's size, followed at
\* once by an unload of the same object.
LoadThenUnload ==
    /\ LoadReached(last) /\ last.raised = "" /\ last.arg[3].used
    /\ last'.op = "unload" /\ last'.raised = "" /\ last'.h = last.h

\* C12 as stated: load(data=X, sram=S) with S of the region's size, then
\* unload() with no frame run in between, returns S at the save-RAM index;
\* and loading X again with the returned entry as sram leaves the save-RAM
\* region byte-identical to S.
C12_RoundTrip_AsStated ==
    [][/\ LoadThenUnload => last'.ret[MEMORY_SAVE_RAM + 1] = last.arg[3]
       /\ ReloadRestores]_vars

\* C12, amended: as stated when S is not empty; when S is empty (the
\* region has size 0) unload() returns None at the save-RAM index, not the
\* empty string, and the reload with None leaves the region empty.
C12_RoundTrip ==
    [][/\ LoadThenUnload =>
             last'.ret[MEMORY_SAVE_RAM + 1] =
                 IF Len(last.arg[3].bytes) = 0 THEN None ELSE last.arg[3]
       /\ ReloadRestores]_vars

\* C12 witness: an unload returned a save-RAM entry that is not blank, and
\* a load given that entry wrote it over different bytes of a region of
\* its size.
C12_Witness ==
    /\ LoadReached(last) /\ last.raised = ""
    /\ last.arg[3].used /\ Len(last.arg[3].bytes) > 0
    /\ last.arg[3].bytes # Blank(Len(last.arg[3].bytes))
    /\ last.arg[5][MEMORY_SAVE_RAM + 1] # last.arg[3].bytes
    /\ core_mem[libname[last.h]][MEMORY_SAVE_RAM + 1] = last.arg[3].bytes

\* The enabled flag index i has in dict d, "absent" when d has no i.
FlagAt(d, i) == IF HasCheat(d, i) THEN <<CheatAt(d, i)[3]>> ELSE <<>>

\* C13: on every session and for every index i, cheat_is_enabled(i) returns
\* the flag the most recent cheat_add(i, ..) or cheat_set_enabled(i, ..) of
\* that session gave, and raises the lookup error when the session never
\* added i or has removed it since (cheat_remove(i) or unload). Stated
\* step by step on the session's mapping: cheat_is_enabled answers from
\* it; the session's cheat_add and successful cheat_set_enabled put their
\* flag at i; its successful cheat_remove(i) and unload leave i absent;
\* and no other step changes what the session has at i.
C13_CheatFlag ==
    [][\A h \in Pair, i \in CheatIndices :
        LET mine == last'.h = h /\ last'.raised = ""
            at == mine /\ last'.arg[1] = i
            before == FlagAt(loaded_cheats(h), i)
            after == FlagAt(loaded_cheats(h)', i)
        IN IF obj[h] # "live" \/ obj'[h] # "live"
           THEN TRUE
           ELSE IF last'.op = "cheat_is_enabled" /\ last'.h = h
                   /\ last'.arg[1] = i
           THEN /\ after = before
                /\ IF before = <<>> THEN last'.raised = "KeyError"
                   ELSE last'.raised = "" /\ last'.ret = before
           ELSE IF last'.op = "cheat_add" /\ at
           THEN after = <<last'.arg[3]>>
           ELSE IF last'.op = "cheat_set_enabled" /\ at
           THEN after = <<last'.arg[2]>>
           ELSE IF \/ last'.op = "cheat_remove" /\ at
                   \/ last'.op = "unload" /\ mine
           THEN after = <<>>
           ELSE after = before
      ]_vars

\* The operations that change the cheat mapping.
CheatMutations == {"cheat_add", "cheat_remove", "cheat_set_enabled"}

\* C14: after every successful cheat mutation the core's cheat table equals
\* the session's mapping: the step invoked retro_cheat_reset once, first,
\* and after it retro_cheat_set exactly once per entry of the mapping as
\* the step left it, with the entry's index, code and enabled flag, and
\* nothing else.
C14_CoreTableRebuilt ==
    [][\A h \in Handles :
        (last'.op \in CheatMutations /\ last'.h = h /\ last'.raised = "") =>
        LET d == loaded_cheats(h)'
            cs == last'.calls
        IN /\ Len(cs) = 1 + Cardinality(d)
           /\ \A k \in 1..Len(cs) :
                 cs[k] = IF k = 1 THEN "retro_cheat_reset"
                         ELSE "retro_cheat_set"
           /\ last'.cheat_set = d
      ]_vars

\* C14 witness: a successful cheat_set_enabled changed the flag of an entry
\* and pushed the mapping, which holds that entry, to the core.
C14_Witness ==
    /\ last.op = "cheat_set_enabled" /\ last.raised = ""
    /\ last.calls = <<"retro_cheat_reset", "retro_cheat_set">>
    /\ \E c \in last.cheat_set :
          /\ c[1] = last.arg[1] /\ c[3] = last.arg[2]
          /\ c \in loaded_cheats(last.h)

\* The cheat operations that look an index up.
CheatLookups == {"cheat_remove", "cheat_set_enabled", "cheat_is_enabled"}

\* C15: cheat_remove, cheat_set_enabled and cheat_is_enabled on an index
\* the session's mapping does not have raise the lookup error (KeyError),
\* leave the mapping as it was and invoke neither retro_cheat_reset nor
\* retro_cheat_set.
C15_AbsentIndex ==
    [][\A h \in Handles, i \in CheatIndices :
        (/\ last'.op \in CheatLookups /\ last'.h = h /\ last'.arg[1] = i
         /\ ~HasCheat(loaded_cheats(h), i)) =>
            /\ last'.raised = "KeyError"
            /\ UNCHANGED <<class_cheats, has_own_cheats, own_cheats>>
            /\ ~Invoked("retro_cheat_reset", last'.calls)
            /\ ~Invoked("retro_cheat_set", last'.calls)
            /\ last'.cheat_set = {}
      ]_vars

\* C15 witness: a cheat_remove of an index that is absent was refused
\* while the mapping holds nothing, the session having unloaded a game.
C15_Witness ==
    /\ last.op = "cheat_remove" /\ last.raised = "KeyError"
    /\ has_own_cheats[last.h]
    /\ ~HasCheat(loaded_cheats(last.h), last.arg[1])

\* C16: the cheat operations are accepted only while a game is loaded:
\* called on a session with no game loaded they are rejected with an
\* exception, the cheat mapping stays as it was and neither
\* retro_cheat_reset nor retro_cheat_set is invoked.
C16_CheatsNeedGame ==
    [][\A h \in Sessions :
        (/\ last'.op \in CheatMutations \cup {"cheat_is_enabled"}
         /\ last'.h = h /\ ~game_loaded[h]) =>
            /\ last'.raised # ""
            /\ UNCHANGED <<class_cheats, has_own_cheats, own_cheats>>
            /\ ~Invoked("retro_cheat_reset", last'.calls)
            /\ ~Invoked("retro_cheat_set", last'.calls)
      ]_vars

\* C17: unserialize(state) requires a loaded game: called on a session with
\* no game loaded it raises NoGameLoaded and retro_unserialize is not
\* invoked.
C17_UnserializeNeedsGame ==
    [][\A h \in Sessions :
        (last'.op = "unserialize" /\ last'.h = h /\ ~game_loaded[h]) =>
            /\ last'.raised = "NoGameLoaded"
            /\ ~Invoked("retro_unserialize", last'.calls)
      ]_vars

\* C18: get_refresh_rate() requires a loaded game: called on a session with
\* no game loaded, before the first load or after an unload, it raises
\* NoGameLoaded and does not read the core's AV info.
C18_RefreshRateNeedsGame ==
    [][\A h \in Sessions :
        (last'.op = "get_refresh_rate" /\ last'.h = h /\ ~game_loaded[h]) =>
            /\ last'.raised = "NoGameLoaded"
            /\ ~Invoked("retro_get_system_av_info", last'.calls)
      ]_vars

\* The devices that work only in port 2 of the console, port index 1.
PortTwoOnly == {DEVICE_LIGHTGUN_SUPER_SCOPE, DEVICE_LIGHTGUN_JUSTIFIER,
                DEVICE_LIGHTGUN_JUSTIFIERS}

\* C19: set_controller_port_device(port, device) rejects a device that is
\* valid only on port index 1 (Super Scope, Justifier, Justifiers) when it
\* is given with another port index: it raises, the combination does not
\* reach retro_set_controller_port_device and the port keeps its device.
C19_PortDeviceChecked ==
    [][(/\ last'.op = "set_controller_port_device"
        /\ last'.arg[2] \in PortTwoOnly /\ last'.arg[1] # 1) =>
            /\ last'.raised # ""
            /\ ~Invoked("retro_set_controller_port_device", last'.calls)
            /\ UNCHANGED port_device
      ]_vars

\* C20: after every successful load_game_normal the standard joypad is
\* attached to ports 0 and 1 of the session's core, whatever
\* set_controller_port_device calls came before the load.
C20_LoadResetsPorts ==
    [][(last'.op = "load_game" /\ last'.raised = "") =>
        \A p \in Ports :
            port_device'[libname[last'.h]][p] = DEVICE_JOYPAD]_vars

\* The open of handle h failed on the API version of its library.
VersionFailed(h) ==
    /\ obj[h] = "failed" /\ libname[h] # NoLib
    /\ api_version(libname[h]) # RETRO_API_VERSION

\* C21: an open whose library reports an API version other than
\* RETRO_API_VERSION raises LibraryVersionMismatch (never LibraryInUse,
\* however many opens of that identifier failed before), does not invoke
\* retro_init, leaves the handle inactive and the registry as it was; and
\* the destruction of the failed handle invokes no retro_deinit and leaves
\* the registry as it was.
C21_VersionMismatch ==
    [][\A h \in Handles :
        /\ (/\ last'.op = "open" /\ last'.h = h
            /\ api_version(last'.arg[1]) # RETRO_API_VERSION) =>
               /\ last'.raised = "LibraryVersionMismatch"
               /\ ~Invoked("retro_init", last'.calls)
               /\ inits'[h] = 0
               /\ ~lib_active'[h]
               /\ UNCHANGED libretro_registry
        /\ (last'.op = "del" /\ last'.h = h /\ VersionFailed(h)) =>
               /\ ~Invoked("retro_deinit", last'.calls)
               /\ UNCHANGED <<libretro_registry, deinits_del, deinits_close>>
      ]_vars

\* C21 witness: the open of a handle failed on the API version after the
\* open of another handle had failed on the same identifier, and the first
\* failed handle has been destroyed without a deinit.
C21_Witness ==
    \E h, g \in Handles :
        /\ h # g
        /\ last.op = "open" /\ last.h = h
        /\ last.raised = "LibraryVersionMismatch"
        /\ obj[g] = "dead" /\ libname[g] = libname[h]
        /\ inits[g] = 0 /\ deinits_del[g] = 0

\* The core entry point whose answer serialize() and unserialize() read.
EntryOf == [serialize |-> "retro_serialize",
            unserialize |-> "retro_unserialize"]

\* C22: serialize() and unserialize() raise RetroException exactly when
\* they invoked retro_serialize / retro_unserialize and the core answered
\* failure; and whether the call failed or succeeded, game_loaded and the
\* cheat mapping are as they were.
C22_SerializeFailure ==
    [][\A h \in Sessions :
        (last'.op \in DOMAIN EntryOf /\ last'.h = h) =>
            /\ (last'.raised = "RetroException") <=>
                   (/\ Invoked(EntryOf[last'.op], last'.calls)
                    /\ ~last'.arg[1])
            /\ UNCHANGED <<game_loaded, class_cheats, has_own_cheats,
                           own_cheats>>
      ]_vars

\* C22 witness: an unserialize on a session with a game loaded and a cheat
\* in its mapping failed with RetroException.
C22_Witness ==
    /\ last.op = "unserialize" /\ last.raised = "RetroException"
    /\ game_loaded[last.h]
    /\ loaded_cheats(last.h) # {}

\* C23: in every state reachable by opens, closes (repeated ones too) and
\* destructions over several handles, the registry holds exactly the
\* identifiers of the handles that are active, and no two active handles
\* have the same identifier.
C23_RegistryExact ==
    /\ libretro_registry =
           {libname[h] : h \in {g \in Handles : lib_active[g]}}
    /\ \A h, g \in Handles :
          (lib_active[h] /\ lib_active[g] /\ libname[h] = libname[g]) => h = g

\* C24: a session is Loaded only after a load_game_normal that completed
\* without an exception: when retro_load_game answers failure, or seeding
\* save RAM or RTC from the payload raises the size error, the call raises
\* and the session has no game loaded afterwards, so that the next
\* load_game_normal is accepted.
C24_LoadFailureUnloaded ==
    [][\A h \in Sessions :
        (last'.op = "load_game" /\ last'.h = h /\ ~game_loaded[h]) =>
            /\ (LoadReached(last') /\ ~last'.arg[6]) => last'.raised # ""
            /\ last'.raised # "" => ~game_loaded'[h]
      ]_vars

\* C25: the cheat mappings of two sessions on different libraries are
\* independent: a successful cheat_add, cheat_remove or cheat_set_enabled
\* on one of them changes, for no index, what cheat_is_enabled returns on
\* the other (a flag, or the lookup error), so that the other's core is
\* never given an entry of the first by retro_cheat_set.
C25_CheatsIndependent ==
    [][\A h \in Pair, g \in Pair :
        (/\ h # g
         /\ obj[h] = "live" /\ obj[g] = "live"
         /\ libname[h] # libname[g]
         /\ last'.op \in CheatMutations /\ last'.h = h
         /\ last'.raised = "") =>
            \A i \in CheatIndices :
                FlagAt(loaded_cheats(g)', i) = FlagAt(loaded_cheats(g), i)
      ]_vars

====
